---------------------------- MODULE Spec2Model ----------------------------
(***************************************************************************)
(* A model of the BBL Multi Builder API (src/main.py, src/config.py).      *)
(*                                                                         *)
(* Strings that the code takes apart (match_id, team names, percentage     *)
(* cells, formatted numbers) are sequences of one-character strings, so    *)
(* that str.replace, str.split, float() and the f-string formatting are    *)
(* computed character by character.  Strings that are only compared        *)
(* (market names, error details, player names) are TLA+ strings.           *)
(*                                                                         *)
(* A Python float is an exact rational [n, d] in lowest terms with d > 0.  *)
(* A double differs from the exact value by a rounding error far below the *)
(* distances between the short decimals of the model, so comparisons agree *)
(* with exact arithmetic, and so does rounding to two decimals unless the  *)
(* exact value lies halfway between two numerals: a halfway value that is  *)
(* a double itself (a denominator that is a power of two) rounds to even,  *)
(* any other halfway value may be rendered either way.                     *)
(***************************************************************************)
EXTENDS Integers, Sequences, FiniteSets, TLC

-----------------------------------------------------------------------------
(* Python values *)

\* Python's None (an absent JSON key read with dict.get, an unset global).
None == <<"None">>

\* Truthiness of a str-or-None value, as in `if not winner_team`.
Truthy(x) == x /= None /\ x /= <<>>

-----------------------------------------------------------------------------
(* Floats as exact rationals *)

RECURSIVE GCD(_, _)
GCD(a, b) == IF b = 0 THEN a ELSE GCD(b, a % b)

Abs(x) == IF x < 0 THEN -x ELSE x

\* The rational n/d in lowest terms, d > 0.
Rat(n, d) ==
    LET g == GCD(Abs(n), Abs(d))
        s == IF d < 0 THEN -1 ELSE 1
    IN  [n |-> s * (n \div g), d |-> s * (d \div g)]

FloatOf(i) == [n |-> i, d |-> 1]

FMul(a, b) == Rat(a.n * b.n, a.d * b.d)
FDiv(a, b) == Rat(a.n * b.d, a.d * b.n)
FGt(a, b)  == a.n * b.d > b.n * a.d
FGe(a, b)  == a.n * b.d >= b.n * a.d
FEq(a, b)  == a.n * b.d = b.n * a.d

-----------------------------------------------------------------------------
(* Strings as character sequences *)

IsPrefix(p, s) == Len(p) <= Len(s) /\ SubSeq(s, 1, Len(p)) = p

Drop(s, k) == SubSeq(s, k + 1, Len(s))

\* str.replace(old, new): left to right, non-overlapping occurrences.
RECURSIVE StrReplace(_, _, _)
StrReplace(s, old, new) ==
    IF s = <<>> THEN <<>>
    ELSE IF IsPrefix(old, s) THEN new \o StrReplace(Drop(s, Len(old)), old, new)
    ELSE <<Head(s)>> \o StrReplace(Tail(s), old, new)

\* str.split(sep): the list of the pieces between the occurrences of sep,
\* empty pieces included.  cur is the piece being read.
RECURSIVE SplitFrom(_, _, _)
SplitFrom(s, sep, cur) ==
    IF s = <<>> THEN <<cur>>
    ELSE IF IsPrefix(sep, s) THEN <<cur>> \o SplitFrom(Drop(s, Len(sep)), sep, <<>>)
    ELSE SplitFrom(Tail(s), sep, Append(cur, Head(s)))

StrSplit(s, sep) == SplitFrom(s, sep, <<>>)

Digits == <<"0", "1", "2", "3", "4", "5", "6", "7", "8", "9">>

DigitVal(c) == (CHOOSE i \in 1..10 : Digits[i] = c) - 1

\* The value of a string of decimal digits (0 for the empty string).
RECURSIVE DigitsVal(_)
DigitsVal(s) ==
    IF s = <<>> THEN 0
    ELSE 10 * DigitsVal(SubSeq(s, 1, Len(s) - 1)) + DigitVal(s[Len(s)])

RECURSIVE Pow10(_)
Pow10(k) == IF k = 0 THEN 1 ELSE 10 * Pow10(k - 1)

\* float(s) for an unsigned decimal literal "ddd" or "ddd.ddd".
ParseFloat(s) ==
    LET parts == StrSplit(s, <<".">>)
        whole == parts[1]
        frac  == IF Len(parts) > 1 THEN parts[2] ELSE <<>>
    IN  Rat(DigitsVal(whole \o frac), Pow10(Len(frac)))

\* str(i) for an integer i >= 0.
RECURSIVE IntToStr(_)
IntToStr(i) ==
    IF i < 10 THEN <<Digits[i + 1]>>
    ELSE IntToStr(i \div 10) \o <<Digits[(i % 10) + 1]>>

RECURSIVE IsPowerOfTwo(_)
IsPowerOfTwo(d) == d = 1 \/ (d % 2 = 0 /\ IsPowerOfTwo(d \div 2))

\* The numbers of hundredths that the format specification ".2f" may round
\* x >= 0 to: the nearest one; halfway between two, the even one when x is
\* held exactly, either one when it is not.
Hundredths(x) ==
    LET q    == x.n \div x.d
        r    == x.n % x.d
        h    == (r * 100) \div x.d
        r2   == (r * 100) % x.d
        base == q * 100 + h
    IN  IF 2 * r2 > x.d THEN {base + 1}
        ELSE IF 2 * r2 < x.d THEN {base}
        ELSE IF IsPowerOfTwo(x.d) THEN {IF base % 2 = 1 THEN base + 1 ELSE base}
        ELSE {base, base + 1}

\* The numeral of h hundredths: the digits, a point, two digits.
Numeral2(h) ==
    IntToStr(h \div 100) \o <<".">> \o
    <<Digits[((h % 100) \div 10) + 1], Digits[(h % 10) + 1]>>

\* f"{x:.2f}" for x >= 0: the strings it may give.
Format2f(x) == {Numeral2(h) : h \in Hundredths(x)}

-----------------------------------------------------------------------------
(* Configuration: src/config.py *)

AdelaideStrikers   == <<"A","d","e","l","a","i","d","e"," ","S","t","r","i","k","e","r","s">>
BrisbaneHeat       == <<"B","r","i","s","b","a","n","e"," ","H","e","a","t">>
HobartHurricanes   == <<"H","o","b","a","r","t"," ","H","u","r","r","i","c","a","n","e","s">>
MelbourneRenegades == <<"M","e","l","b","o","u","r","n","e"," ","R","e","n","e","g","a","d","e","s">>
MelbourneStars     == <<"M","e","l","b","o","u","r","n","e"," ","S","t","a","r","s">>
PerthScorchers     == <<"P","e","r","t","h"," ","S","c","o","r","c","h","e","r","s">>
SydneySixers       == <<"S","y","d","n","e","y"," ","S","i","x","e","r","s">>
SydneyThunder      == <<"S","y","d","n","e","y"," ","T","h","u","n","d","e","r">>

BBL_TEAMS ==
    <<AdelaideStrikers, BrisbaneHeat, HobartHurricanes, MelbourneRenegades,
      MelbourneStars, PerthScorchers, SydneySixers, SydneyThunder>>

\* x in list
InList(x, list) == \E i \in 1..Len(list) : list[i] = x

\* The market catalog: display name and CSV column of each market.
BATTING_MARKETS ==
    << [name |-> "10+ Runs",
        csv_column |-> "Percentage.of.No.of.times.BatsmanName.scored.more.than.10.runs"],
       [name |-> "20+ Runs",
        csv_column |-> "Percentage.of.No.of.times.BatsmanName.scored.more.than.20.runs"],
       [name |-> "To Hit a Six",
        csv_column |-> "Percentage.of.No.of.Times.BatsmanName.Hit.Atleast.One.Six"],
       [name |-> "Top Team Run Scorer (TTRS)",
        csv_column |-> "Percentage.of.Top.Team.Runs.Scorer"] >>

BOWLING_MARKETS ==
    << [name |-> "1+ Wickets",
        csv_column |-> "Percentage.of.No.of.times.BowlerName.Took.Atleast.1.Wicket"],
       [name |-> "2+ Wickets",
        csv_column |-> "Percentage.of.No.of.times.BowlerName.Took.Atleast.2.Wicket"],
       [name |-> "Top Team Wicket Taker",
        csv_column |-> "Percentage.of.Top.Wicket.Taker.for.Team"] >>

-----------------------------------------------------------------------------
(* The dataset: cells, rows and tables of the three CSV files *)

\* A percentage cell as pandas reads it: NaN for an empty field, a str for a
\* field such as 35.5%, a float for a bare number.
NaN       == [kind |-> "nan", s |-> <<>>, v |-> FloatOf(0)]
StrCell(s) == [kind |-> "str", s |-> s, v |-> FloatOf(0)]
NumCell(v) == [kind |-> "num", s |-> <<>>, v |-> v]

PdNotna(x)  == x.kind /= "nan"
IsStr(x)    == x.kind = "str"

ZeroSentinel == <<"0", ".", "0", "%">>

\* x != "0.0%" on a cell: a float never equals a str.
NotZeroSentinel(x) == ~(IsStr(x) /\ x.s = ZeroSentinel)

\* A row of BBL_batters.csv (the percentage columns and the two key columns).
BatterRow(name, team, c10, c20, c6, cttrs) ==
    [c \in {"BatsmanName", "Team"} \cup {BATTING_MARKETS[i].csv_column : i \in 1..4} |->
        CASE c = "BatsmanName" -> name
          [] c = "Team" -> team
          [] c = BATTING_MARKETS[1].csv_column -> c10
          [] c = BATTING_MARKETS[2].csv_column -> c20
          [] c = BATTING_MARKETS[3].csv_column -> c6
          [] OTHER -> cttrs]

\* A row of BBL_bowlers.csv.
BowlerRow(name, team, w1, w2, wtop) ==
    [c \in {"BowlerName", "bowling_team"} \cup {BOWLING_MARKETS[i].csv_column : i \in 1..3} |->
        CASE c = "BowlerName" -> name
          [] c = "bowling_team" -> team
          [] c = BOWLING_MARKETS[1].csv_column -> w1
          [] c = BOWLING_MARKETS[2].csv_column -> w2
          [] OTHER -> wtop]

\* A row of Matchupsdata.csv.
MatchupRow(name, team, matchup) ==
    [PlayerName |-> name, TeamName |-> team, Matchup |-> matchup]

\* A global handle: None before load_data, a DataFrame after.
NoneDF == [is_none |-> TRUE, rows |-> <<>>]
DataFrame(rows) == [is_none |-> FALSE, rows |-> rows]

-----------------------------------------------------------------------------
(* Bounds and the inputs of the model *)

MaxBatters == 2
MaxBowlers == 1

PlayerNames == <<"P1", "P2", "P3", "P4", "P5", "P6">>

Pct(s) == StrCell(s \o <<"%">>)

\* The rows a batters file is made of.  Rows 1 and 2 hold str cells (with the
\* "0.0%" sentinel, an empty field and a "0%"), row 3 holds float cells.
BatterCatalog ==
    { BatterRow("", SydneySixers,
                Pct(<<"7","5",".","5">>), Pct(<<"5","0",".","0">>),
                Pct(<<"5","0",".","0">>), StrCell(ZeroSentinel)),
      BatterRow("", SydneySixers,
                Pct(<<"5","0",".","0">>), NaN,
                Pct(<<"0">>), Pct(<<"1","0","0",".","0">>)),
      BatterRow("", PerthScorchers,
                NumCell(FloatOf(50)), NumCell(FloatOf(0)),
                NumCell(Rat(151, 2)), NumCell(FloatOf(25))),
      BatterRow("", PerthScorchers,
                Pct(<<"7","5",".","5">>), Pct(<<"5","0",".","0">>),
                Pct(<<"5","0",".","0">>), StrCell(ZeroSentinel)) }

\* The rows a bowlers file is made of.
BowlerCatalog ==
    { BowlerRow("", SydneySixers,
                Pct(<<"5","0",".","0">>), StrCell(ZeroSentinel), Pct(<<"4","0",".","0">>)),
      BowlerRow("", PerthScorchers,
                Pct(<<"5","0",".","0">>), StrCell(ZeroSentinel), Pct(<<"4","0",".","0">>)),
      BowlerRow("", PerthScorchers,
                Pct(<<"7","5",".","5">>), Pct(<<"5","0",".","0">>), NaN) }

\* The tables of at most max rows of catalog, row i named PlayerNames[i]
\* (so the first batter and the first bowler are one all-rounder).
Tables(catalog, max, nameCol) ==
    UNION { { [i \in 1..k |-> [t[i] EXCEPT ![nameCol] = PlayerNames[i]]] :
              t \in [1..k -> catalog] } : k \in 0..max }

BatterTables == Tables(BatterCatalog, MaxBatters, "BatsmanName")
BowlerTables == Tables(BowlerCatalog, MaxBowlers, "BowlerName")

SixersVsScorchers == SydneySixers \o <<" ", "v", "s", " ">> \o PerthScorchers

\* The matchups file: two rows of one fixture and a row whose label names no
\* fixture.
MatchupTable ==
    << MatchupRow("P1", SydneySixers, SixersVsScorchers),
       MatchupRow("P2", PerthScorchers, SixersVsScorchers),
       MatchupRow("P3", SydneySixers, SydneySixers) >>

OtagoVolts == <<"O","t","a","g","o"," ","V","o","l","t","s">>

\* A JSON object with the keys whose value is given: Absent leaves a key out.
Absent == <<"Absent">>

DictGet(d, k) == IF k \in DOMAIN d THEN d[k] ELSE None
DictGetOr(d, k, default) == IF k \in DOMAIN d THEN d[k] ELSE default

RecommendationBody(w, m) ==
    [k \in {x \in {"winner_team", "match_id"} :
              (x = "winner_team" /\ w /= Absent) \/ (x = "match_id" /\ m /= Absent)} |->
        IF k = "winner_team" THEN w ELSE m]

Winners == {Absent, <<>>, SydneySixers, OtagoVolts}

UnderscoreVs == <<"_", "v", "s", "_">>
SpaceVs      == <<" ", "v", "s", " ">>

MatchNames == {SydneySixers, PerthScorchers}
Separators == {UnderscoreVs, SpaceVs}

\* match_id values: absent, empty, a bare name, two names around a separator,
\* a match of two other teams, three names around two separators.
MatchIds ==
    {Absent, <<>>} \cup MatchNames
    \cup {a \o s \o b : a \in MatchNames, s \in Separators, b \in MatchNames}
    \cup {PerthScorchers \o UnderscoreVs \o MelbourneStars}
    \cup {SydneySixers \o s \o PerthScorchers \o t \o SydneySixers :
            s \in Separators, t \in Separators}

-----------------------------------------------------------------------------
(* State *)

VARIABLES
    batters_df,     \* the global handles, None until load_data assigns them
    bowlers_df,
    matchups_df,
    started,        \* whether the startup event has run
    frame,          \* the handler being answered: its name and local variables
    response        \* the HTTP response of that handler, NoResponse when idle

vars == <<batters_df, bowlers_df, matchups_df, started, frame, response>>

NoFrame    == [handler |-> ""]
NoResponse == [status |-> 0, raised |-> "", detail |-> "", body |-> <<>>]

\* raise HTTPException(status_code, detail)
HTTPException(status_code, detail) ==
    [status |-> status_code, raised |-> "HTTPException", detail |-> detail, body |-> <<>>]

\* An exception no handler catches: the framework answers 500.
Unhandled(exception) ==
    [status |-> 500, raised |-> exception, detail |-> "Internal Server Error", body |-> <<>>]

\* A returned value: 200 with the value as JSON body.
Returned(body) == [status |-> 200, raised |-> "", detail |-> "", body |-> body]

Idle == response.status = 0

-----------------------------------------------------------------------------
(* POST /recommendations *)

\* MatchTeams splitting on "_vs_" alone.
MatchTeamsUnderscoreOnly(winner_team, match_id) ==
    IF Truthy(match_id)
    THEN LET teams == StrSplit(match_id, UnderscoreVs)
         IN  IF Len(teams) = 2 THEN <<teams[1], teams[2]>> ELSE <<winner_team>>
    ELSE <<winner_team>>

\* The team list of a request: main.py, "Parse match to get both teams".
MatchTeams(winner_team, match_id) ==
    IF Truthy(match_id)
    THEN LET teams == StrSplit(StrReplace(match_id, UnderscoreVs, SpaceVs), SpaceVs)
         IN  IF Len(teams) = 2 THEN <<teams[1], teams[2]>> ELSE <<winner_team>>
    ELSE <<winner_team>>

\* df[df[column] == team]
RowsWhere(df, column, value) == SelectSeq(df.rows, LAMBDA r : r[column] = value)

\* float(pct.replace('%', '')) if isinstance(pct, str) else pct
PercentageValue(pct) ==
    IF IsStr(pct) THEN ParseFloat(StrReplace(pct.s, <<"%">>, <<>>)) ELSE pct.v

\* The filter in front of every append.
Qualifies(pct) == PdNotna(pct) /\ NotZeroSentinel(pct)

\* One "market" block of the handler: the entry appended for a row and a
\* market, if any.
MarketBlock(row, nameCol, teamCol, column, market, type) ==
    LET pct == row[column]
    IN  IF Qualifies(pct)
        THEN << [player_name |-> row[nameCol], team |-> row[teamCol],
                 market |-> market, percentage |-> pct,
                 percentage_value |-> PercentageValue(pct), type |-> type] >>
        ELSE <<>>

\* The market blocks the handler writes out for a batter, in order.
BatterBlocks ==
    << [market |-> "10+ Runs",
        column |-> "Percentage.of.No.of.times.BatsmanName.scored.more.than.10.runs"],
       [market |-> "20+ Runs",
        column |-> "Percentage.of.No.of.times.BatsmanName.scored.more.than.20.runs"],
       [market |-> "To Hit a Six",
        column |-> "Percentage.of.No.of.Times.BatsmanName.Hit.Atleast.One.Six"],
       [market |-> "Top Team Run Scorer (TTRS)",
        column |-> "Percentage.of.Top.Team.Runs.Scorer"] >>

\* The market blocks the handler writes out for a bowler, in order.
BowlerBlocks ==
    << [market |-> "1+ Wickets",
        column |-> "Percentage.of.No.of.times.BowlerName.Took.Atleast.1.Wicket"],
       [market |-> "2+ Wickets",
        column |-> "Percentage.of.No.of.times.BowlerName.Took.Atleast.2.Wicket"] >>

RECURSIVE Flatten(_)
Flatten(seqs) == IF seqs = <<>> THEN <<>> ELSE Head(seqs) \o Flatten(Tail(seqs))

\* The body of "for _, batter in team_batters.iterrows()".
ProcessBatter(batter) ==
    Flatten([i \in 1..Len(BatterBlocks) |->
        MarketBlock(batter, "BatsmanName", "Team",
                    BatterBlocks[i].column, BatterBlocks[i].market, "batting")])

\* The body of "for _, bowler in team_bowlers.iterrows()".
ProcessBowler(bowler) ==
    Flatten([i \in 1..Len(BowlerBlocks) |->
        MarketBlock(bowler, "BowlerName", "bowling_team",
                    BowlerBlocks[i].column, BowlerBlocks[i].market, "bowling")])

\* TeamBatters without the selection by team.
TeamBattersUnfiltered(team) == batters_df.rows

TeamBatters(team) == RowsWhere(batters_df, "Team", team)
TeamBowlers(team) == RowsWhere(bowlers_df, "bowling_team", team)

\* The body of "for team in match_teams": the batters, then the bowlers.
ProcessTeam(team) ==
    LET team_batters == TeamBatters(team)
        team_bowlers == TeamBowlers(team)
    IN  Flatten([i \in 1..Len(team_batters) |-> ProcessBatter(team_batters[i])])
        \o Flatten([i \in 1..Len(team_bowlers) |-> ProcessBowler(team_bowlers[i])])

ScanTeams(match_teams) ==
    Flatten([i \in 1..Len(match_teams) |-> ProcessTeam(match_teams[i])])

\* InsertDescending placing x in front of the entries equal to it.
InsertDescendingBeforeEqual(sorted, x) ==
    LET smaller == {i \in 1..Len(sorted) :
                      FGe(x.percentage_value, sorted[i].percentage_value)}
        at == IF smaller = {} THEN Len(sorted) + 1
              ELSE CHOOSE i \in smaller : \A j \in smaller : i <= j
    IN  SubSeq(sorted, 1, at - 1) \o <<x>> \o SubSeq(sorted, at, Len(sorted))

\* x placed in a list sorted by percentage_value descending, behind the
\* entries that are not smaller: equal entries keep their order.
InsertDescending(sorted, x) ==
    LET smaller == {i \in 1..Len(sorted) :
                      FGt(x.percentage_value, sorted[i].percentage_value)}
        at == IF smaller = {} THEN Len(sorted) + 1
              ELSE CHOOSE i \in smaller : \A j \in smaller : i <= j
    IN  SubSeq(sorted, 1, at - 1) \o <<x>> \o SubSeq(sorted, at, Len(sorted))

\* sorted(recommendations, key=lambda x: x['percentage_value'], reverse=True)
RECURSIVE SortedDescending(_)
SortedDescending(recs) ==
    IF recs = <<>> THEN <<>>
    ELSE InsertDescending(SortedDescending(SubSeq(recs, 1, Len(recs) - 1)),
                          recs[Len(recs)])

TopCount == 7

\* TopRecommendations cutting one entry late.
TopRecommendationsOneMore(recs) ==
    SubSeq(recs, 1, IF Len(recs) < TopCount + 1 THEN Len(recs) ELSE TopCount + 1)

\* recommendations[:7]
TopRecommendations(recs) ==
    SubSeq(recs, 1, IF Len(recs) < TopCount THEN Len(recs) ELSE TopCount)

TotalAvailable(recs) == Len(recs)

WinnerRejected(winner_team) == ~Truthy(winner_team) \/ ~InList(winner_team, BBL_TEAMS)

\* The handler on a request body: its locals and its response.
get_recommendations(request) ==
    LET winner_team == DictGet(request, "winner_team")
        match_id    == DictGet(request, "match_id")
        args == [handler |-> "get_recommendations", request |-> request,
                 winner_team |-> winner_team, match_id |-> match_id]
    IN  IF WinnerRejected(winner_team)
        THEN [frame |-> args, response |-> HTTPException(400, "Invalid winner team")]
        ELSE
        LET match_teams == MatchTeams(winner_team, match_id)
        IN  IF batters_df.is_none \/ bowlers_df.is_none
            \* None[...] in the first pass of the loop
            THEN [frame |-> args @@ [match_teams |-> match_teams],
                  response |-> Unhandled("TypeError")]
            ELSE
            LET scanned == ScanTeams(match_teams)
                recommendations == SortedDescending(scanned)
                top_recommendations == TopRecommendations(recommendations)
            IN  [frame |-> args @@ [match_teams |-> match_teams,
                                    scanned |-> scanned,
                                    recommendations |-> recommendations,
                                    top_recommendations |-> top_recommendations],
                 response |-> Returned(
                    [winner_team |-> winner_team,
                     match_teams |-> match_teams,
                     recommendations |-> top_recommendations,
                     total_available |-> TotalAvailable(recommendations)])]

Recommendations ==
    /\ Idle
    /\ \E w \in Winners, m \in MatchIds :
        LET out == get_recommendations(RecommendationBody(w, m))
        IN  /\ frame' = out.frame
            /\ response' = out.response
    /\ UNCHANGED <<batters_df, bowlers_df, matchups_df, started>>

-----------------------------------------------------------------------------
(* Startup: load_data *)

\* pd.read_csv of the three files in turn.  failed_at is the file whose read
\* raises (0 when none does); the handles assigned before it stay assigned.
load_data(batters, bowlers, matchups, failed_at) ==
    /\ batters_df'  = IF failed_at = 0 \/ failed_at > 1 THEN DataFrame(batters) ELSE batters_df
    /\ bowlers_df'  = IF failed_at = 0 \/ failed_at > 2 THEN DataFrame(bowlers) ELSE bowlers_df
    /\ matchups_df' = IF failed_at = 0 THEN DataFrame(matchups) ELSE matchups_df

startup_event ==
    /\ ~started
    /\ Idle
    /\ started' = TRUE
    /\ \E b \in BatterTables, w \in BowlerTables, failed_at \in 0..3 :
        load_data(b, w, MatchupTable, failed_at)
    /\ UNCHANGED <<frame, response>>

-----------------------------------------------------------------------------
(* The dataset lookups *)

RECURSIVE StripLeft(_)
StripLeft(s) == IF s /= <<>> /\ Head(s) = " " THEN StripLeft(Tail(s)) ELSE s

RECURSIVE StripRight(_)
StripRight(s) ==
    IF s /= <<>> /\ s[Len(s)] = " " THEN StripRight(SubSeq(s, 1, Len(s) - 1)) ELSE s

\* str.strip()
Strip(s) == StripLeft(StripRight(s))

\* Series.unique(): the values in order of first appearance.
RECURSIVE Unique(_)
Unique(xs) ==
    IF xs = <<>> THEN <<>>
    ELSE LET front == Unique(SubSeq(xs, 1, Len(xs) - 1))
             x == xs[Len(xs)]
         IN  IF InList(x, front) THEN front ELSE Append(front, x)

Column(df, column) == [i \in 1..Len(df.rows) |-> df.rows[i][column]]

\* GET /matchups
get_matchups ==
    IF matchups_df.is_none
    THEN HTTPException(500, "Matchup data not loaded")
    ELSE
    LET unique_matchups == Unique(Column(matchups_df, "Matchup"))
        entry(matchup) ==
            LET teams == StrSplit(matchup, SpaceVs)
            IN  IF Len(teams) = 2
                THEN << [id |-> StrReplace(StrReplace(matchup, <<" ">>, <<"_">>),
                                           <<"v", "s">>, <<"v", "s">>),
                         matchup |-> matchup,
                         team1 |-> Strip(teams[1]),
                         team2 |-> Strip(teams[2])] >>
                ELSE <<>>
    IN  Returned([matchups |->
            Flatten([i \in 1..Len(unique_matchups) |-> entry(unique_matchups[i])])])

\* GET /matchup-players?matchup=...
get_matchup_players(matchup) ==
    IF matchups_df.is_none
    THEN HTTPException(500, "Matchup data not loaded")
    ELSE
    LET matchup_players == RowsWhere(matchups_df, "Matchup", matchup)
    IN  IF matchup_players = <<>>
        THEN HTTPException(404, "Matchup not found")
        ELSE Returned(matchup_players)

\* The percentage fields of a stats block (the integer count columns of the
\* files are outside the model).
BattingStats(batter) ==
    [runs_10_plus_pct |-> batter[BATTING_MARKETS[1].csv_column],
     runs_20_plus_pct |-> batter[BATTING_MARKETS[2].csv_column],
     six_hit_pct      |-> batter[BATTING_MARKETS[3].csv_column],
     top_scorer_pct   |-> batter[BATTING_MARKETS[4].csv_column]]

BowlingStats(bowler) ==
    [wicket_1_plus_pct    |-> bowler[BOWLING_MARKETS[1].csv_column],
     wicket_2_plus_pct    |-> bowler[BOWLING_MARKETS[2].csv_column],
     top_wicket_taker_pct |-> bowler[BOWLING_MARKETS[3].csv_column]]

\* The stats of a name: a one-element list per role the name has, else empty.
BattingOf(player_name) ==
    LET batter_data == RowsWhere(batters_df, "BatsmanName", player_name)
    IN  IF batter_data /= <<>> THEN <<BattingStats(batter_data[1])>> ELSE <<>>

BowlingOf(player_name) ==
    LET bowler_data == RowsWhere(bowlers_df, "BowlerName", player_name)
    IN  IF bowler_data /= <<>> THEN <<BowlingStats(bowler_data[1])>> ELSE <<>>

\* GET /player-stats/{player_name}
get_player_stats(player_name) ==
    IF batters_df.is_none \/ bowlers_df.is_none
    THEN HTTPException(500, "Player data not loaded")
    ELSE IF BattingOf(player_name) = <<>> /\ BowlingOf(player_name) = <<>>
    THEN HTTPException(404, "Player not found")
    ELSE Returned([name |-> player_name,
                   batting_stats |-> BattingOf(player_name),
                   bowling_stats |-> BowlingOf(player_name)])

\* GET /team-stats/{team_name}
get_team_stats(team_name) ==
    IF matchups_df.is_none \/ batters_df.is_none \/ bowlers_df.is_none
    THEN HTTPException(500, "Data not loaded")
    ELSE
    LET team_rows == RowsWhere(matchups_df, "TeamName", team_name)
        team_players == [i \in 1..Len(team_rows) |-> team_rows[i].PlayerName]
    IN  IF team_players = <<>>
        THEN HTTPException(404, "No players found for team")
        ELSE Returned([team |-> team_name,
                       players |-> [i \in 1..Len(team_players) |->
                           [name |-> team_players[i],
                            batting_stats |-> BattingOf(team_players[i]),
                            bowling_stats |-> BowlingOf(team_players[i])]]])

\* GET /players/{team}
get_team_players(team) ==
    IF ~InList(team, BBL_TEAMS)
    THEN HTTPException(404, "Team not found")
    ELSE IF batters_df.is_none \/ bowlers_df.is_none
    \* None[...] where the team's rows are selected
    THEN Unhandled("TypeError")
    ELSE
    LET team_batters == TeamBatters(team)
        team_bowlers == TeamBowlers(team)
        batters == [i \in 1..Len(team_batters) |->
                      [name |-> team_batters[i]["BatsmanName"], type |-> "batter",
                       team |-> team_batters[i]["Team"]]]
        bowlers == [i \in 1..Len(team_bowlers) |->
                      [name |-> team_bowlers[i]["BowlerName"], type |-> "bowler",
                       team |-> team_bowlers[i]["bowling_team"]]]
    IN  Returned([team |-> team, batters |-> batters, bowlers |-> bowlers,
                  total_players |-> Len(batters) + Len(bowlers)])

\* The path and query parameters the lookups are called with.
TeamParams    == {SydneySixers, OtagoVolts}
MatchupParams == {SixersVsScorchers, OtagoVolts}
PlayerParams  == {"P1", "P9"}

Answer(handler, arg, result) ==
    /\ Idle
    /\ frame' = [handler |-> handler, arg |-> arg]
    /\ response' = result
    /\ UNCHANGED <<batters_df, bowlers_df, matchups_df, started>>

Matchups == Answer("get_matchups", <<>>, get_matchups)

MatchupPlayers ==
    \E matchup \in MatchupParams :
        Answer("get_matchup_players", matchup, get_matchup_players(matchup))

PlayerStats ==
    \E player_name \in PlayerParams :
        Answer("get_player_stats", player_name, get_player_stats(player_name))

TeamStats ==
    \E team_name \in TeamParams :
        Answer("get_team_stats", team_name, get_team_stats(team_name))

TeamPlayers ==
    \E team \in TeamParams :
        Answer("get_team_players", team, get_team_players(team))

\* The response is sent and the handler's frame is gone.
Respond ==
    /\ ~Idle
    /\ frame' = NoFrame
    /\ response' = NoResponse
    /\ UNCHANGED <<batters_df, bowlers_df, matchups_df, started>>

-----------------------------------------------------------------------------
(* The server of the dataset endpoints *)

Init ==
    /\ batters_df = NoneDF
    /\ bowlers_df = NoneDF
    /\ matchups_df = NoneDF
    /\ started = FALSE
    /\ frame = NoFrame
    /\ response = NoResponse

Next ==
    \/ startup_event
    \/ Recommendations
    \/ TeamPlayers
    \/ Matchups
    \/ MatchupPlayers
    \/ PlayerStats
    \/ TeamStats
    \/ Respond

Spec == Init /\ [][Next]_vars

-----------------------------------------------------------------------------
(* POST /build-multi *)

MaxLegs == 3

\* The percentage_value of a leg as the caller sends it.
LegValues ==
    {FloatOf(-5), FloatOf(0), FloatOf(25), FloatOf(33), FloatOf(50), FloatOf(100)}

\* The legs: one without the key percentage_value, one for each value.
Bets ==
    {[player_name |-> "P1", market |-> "10+ Runs"]}
    \cup {[player_name |-> "P1", market |-> "10+ Runs", percentage_value |-> v] :
            v \in LegValues}

BetLists == UNION { [1..k -> Bets] : k \in 0..MaxLegs }

\* The request bodies: winner_team and selected_bets each present or left out.
BuildMultiBodies ==
    {[winner_team |-> w, selected_bets |-> b] : w \in Winners \ {Absent}, b \in BetLists}
    \cup {[winner_team |-> w] : w \in Winners \ {Absent}}
    \cup {[selected_bets |-> b] : b \in BetLists}
    \cup {[k \in {} |-> Absent]}

\* Accumulate with the test written percentage >= 0: a zero leg multiplies.
AccumulateZeroLeg(total_percentage, bet) ==
    LET percentage == DictGetOr(bet, "percentage_value", FloatOf(0))
    IN  IF FGe(percentage, FloatOf(0))
        THEN FMul(total_percentage, FDiv(percentage, FloatOf(100)))
        ELSE total_percentage

\* One pass of "for bet in selected_bets".
Accumulate(total_percentage, bet) ==
    LET percentage == DictGetOr(bet, "percentage_value", FloatOf(0))
    IN  IF FGt(percentage, FloatOf(0))
        THEN FMul(total_percentage, FDiv(percentage, FloatOf(100)))
        ELSE total_percentage

\* total_percentage after the loop, from 1.0.
RECURSIVE TotalPercentage(_)
TotalPercentage(selected_bets) ==
    IF selected_bets = <<>> THEN FloatOf(1)
    ELSE Accumulate(TotalPercentage(SubSeq(selected_bets, 1, Len(selected_bets) - 1)),
                    selected_bets[Len(selected_bets)])

CombinedPercentage(selected_bets) == FMul(TotalPercentage(selected_bets), FloatOf(100))

NotApplicable == <<"N", "/", "A">>

\* EstimatedOdds with the quotient upside down.
EstimatedOddsInverted(combined_percentage) ==
    IF FGt(combined_percentage, FloatOf(0))
    THEN Format2f(FDiv(combined_percentage, FloatOf(100)))
    ELSE {NotApplicable}

\* f"{100/combined_percentage:.2f}" if combined_percentage > 0 else "N/A":
\* the strings it may give.
EstimatedOdds(combined_percentage) ==
    IF FGt(combined_percentage, FloatOf(0))
    THEN Format2f(FDiv(FloatOf(100), combined_percentage))
    ELSE {NotApplicable}

\* BuildMultiError with the two checks in the other order.
BuildMultiErrorBetsFirst(winner_team, selected_bets) ==
    IF selected_bets = <<>> THEN "At least one bet must be selected"
    ELSE IF ~Truthy(winner_team) THEN "Winner team is required"
    ELSE ""

\* The two checks in front of the computation, in order.
BuildMultiError(winner_team, selected_bets) ==
    IF ~Truthy(winner_team) THEN "Winner team is required"
    ELSE IF selected_bets = <<>> THEN "At least one bet must be selected"
    ELSE ""

\* The handler on a request body: the outcomes it may have, each the locals
\* and the response.
build_multi(request) ==
    LET winner_team   == DictGet(request, "winner_team")
        selected_bets == DictGetOr(request, "selected_bets", <<>>)
        args == [handler |-> "build_multi", request |-> request,
                 winner_team |-> winner_team, selected_bets |-> selected_bets]
        error == BuildMultiError(winner_team, selected_bets)
    IN  IF error /= ""
        THEN {[frame |-> args, response |-> HTTPException(400, error)]}
        ELSE
        LET total_percentage == TotalPercentage(selected_bets)
            combined_percentage == CombinedPercentage(selected_bets)
        IN  {[frame |-> args @@ [total_percentage |-> total_percentage,
                                 combined_percentage |-> combined_percentage],
              response |-> Returned([multi_bet |->
                 [winner_team |-> winner_team,
                  selected_bets |-> selected_bets,
                  total_legs |-> Len(selected_bets) + 1,
                  combined_percentage |-> shown \o <<"%">>,
                  estimated_odds |-> odds]])] :
             shown \in Format2f(combined_percentage),
             odds \in EstimatedOdds(combined_percentage)}

BuildMulti ==
    /\ Idle
    /\ \E request \in BuildMultiBodies :
        \E out \in build_multi(request) :
            /\ frame' = out.frame
            /\ response' = out.response
    /\ UNCHANGED <<batters_df, bowlers_df, matchups_df, started>>

\* build_multi reads none of the global handles: its behaviours are those of
\* the server that answers it alone.
NextMulti ==
    \/ BuildMulti
    \/ Respond

SpecMulti == Init /\ [][NextMulti]_vars

-----------------------------------------------------------------------------
(* Properties of POST /recommendations and of the dataset lookups *)

\* A POST /recommendations request was accepted and answered.
RecommendationsAnswered ==
    frame.handler = "get_recommendations" /\ response.status = 200

Indices(xs) == 1..Len(xs)

IsZero(x) == x.n = 0

\* C1: every entry of a returned recommendations list has a percentage_value
\* strictly above 0 and at most 100; a pair whose percentage is missing or is
\* zero in any encoding is never emitted.
C1_PositivePercentages ==
    RecommendationsAnswered =>
        \A i \in Indices(response.body.recommendations) :
            LET e == response.body.recommendations[i]
            IN  /\ PdNotna(e.percentage)
                /\ FGt(e.percentage_value, FloatOf(0))
                /\ FGe(FloatOf(100), e.percentage_value)

\* The handles a handler reads.
HandlesRead(handler) ==
    CASE handler = "get_matchups"        -> <<matchups_df>>
      [] handler = "get_matchup_players" -> <<matchups_df>>
      [] handler = "get_player_stats"    -> <<batters_df, bowlers_df>>
      [] handler = "get_team_stats"      -> <<matchups_df, batters_df, bowlers_df>>
      [] handler = "get_team_players"    -> <<batters_df, bowlers_df>>
      [] handler = "get_recommendations" -> <<batters_df, bowlers_df>>
      [] OTHER -> <<>>

\* The request of the frame was turned away on its parameters, before the
\* handler came to the dataset.
RejectedOnParameters ==
    \/ frame.handler = "get_recommendations" /\ WinnerRejected(frame.winner_team)
    \/ frame.handler = "get_team_players" /\ ~InList(frame.arg, BBL_TEAMS)

DataUnavailableDetails ==
    {"Matchup data not loaded", "Player data not loaded", "Data not loaded"}

\* C2: a request that reads the dataset while a handle it reads is unloaded
\* ends in an explicit data-unavailable server error; no handler goes on to
\* operate on an absent or partially loaded dataset.
C2_FailFastWhenUnloaded ==
    (/\ ~Idle
     /\ ~RejectedOnParameters
     /\ \E i \in Indices(HandlesRead(frame.handler)) : HandlesRead(frame.handler)[i].is_none)
    => /\ response.status = 500
       /\ response.raised = "HTTPException"
       /\ response.detail \in DataUnavailableDetails

-----------------------------------------------------------------------------
(* Properties of POST /build-multi *)

BuildMultiCalled == frame.handler = "build_multi"

\* A POST /build-multi request was accepted and answered.
BuildMultiAnswered == BuildMultiCalled /\ response.status = 200

\* The leg carries the percentage_value v.
HasValue(bet, v) == "percentage_value" \in DOMAIN bet /\ bet.percentage_value = v

\* The legs that count: those that carry a percentage_value above 0.
CountedLegs(legs) ==
    SelectSeq(legs, LAMBDA b : "percentage_value" \in DOMAIN b /\ b.percentage_value.n > 0)

\* The product of percentage_value / 100 over a list of legs.
RECURSIVE ProbabilityProduct(_)
ProbabilityProduct(legs) ==
    IF legs = <<>> THEN FloatOf(1)
    ELSE FMul(Rat(Head(legs).percentage_value.n, 100 * Head(legs).percentage_value.d),
              ProbabilityProduct(Tail(legs)))

\* 100 times the product over the counted legs of the request.
ExpectedPercentage == FMul(FloatOf(100), ProbabilityProduct(CountedLegs(frame.selected_bets)))

\* s is a decimal numeral with exactly two digits behind the point.
TwoDecimals(s) ==
    /\ Len(s) >= 4
    /\ s[Len(s) - 2] = "."
    /\ \A i \in Indices(s) : i /= Len(s) - 2 => InList(s[i], Digits)

\* The numeral s is x >= 0 rounded to two decimals: with h the number of
\* hundredths s names, 2h - 1 <= 200x <= 2h + 1.  200x is taken apart into its
\* integer part and the remainder over x.d.
RendersTo2(s, x) ==
    /\ TwoDecimals(s)
    /\ LET h     == DigitsVal(SubSeq(s, 1, Len(s) - 3) \o SubSeq(s, Len(s) - 1, Len(s)))
           whole == 200 * (x.n \div x.d) + (200 * (x.n % x.d)) \div x.d
           rest  == (200 * (x.n % x.d)) % x.d
       IN  /\ 2 * h - 1 <= whole
           /\ whole < 2 * h + 1 \/ (whole = 2 * h + 1 /\ rest = 0)

Str2500Pct  == <<"2", "5", ".", "0", "0", "%">>
Str10000Pct == <<"1", "0", "0", ".", "0", "0", "%">>

\* C3: combined_percentage is 100 times the product of percentage_value/100
\* over exactly the legs whose percentage_value is above 0, rendered with two
\* decimals; the other legs are skipped.  Two legs of 50 give "25.00%", a
\* single leg of 0 gives "100.00%".
C3_CombinedPercentage ==
    BuildMultiAnswered =>
        LET shown == response.body.multi_bet.combined_percentage
            legs  == frame.selected_bets
            values == [i \in Indices(legs) |->
                         DictGetOr(legs[i], "percentage_value", Absent)]
        IN  /\ shown[Len(shown)] = "%"
            /\ RendersTo2(SubSeq(shown, 1, Len(shown) - 1), ExpectedPercentage)
            /\ values = <<FloatOf(50), FloatOf(50)>> => shown = Str2500Pct
            /\ values = <<FloatOf(0)>> => shown = Str10000Pct

\* Three legs: one without percentage_value, one of 33 and one of 50.
C3_Witness ==
    /\ BuildMultiAnswered
    /\ Len(frame.selected_bets) = 3
    /\ "percentage_value" \notin DOMAIN frame.selected_bets[1]
    /\ HasValue(frame.selected_bets[2], FloatOf(33))
    /\ HasValue(frame.selected_bets[3], FloatOf(50))
    /\ response.body.multi_bet.combined_percentage = <<"1", "6", ".", "5", "0", "%">>

\* C4: build_multi answers 400 with no multi_bet when winner_team is absent or
\* empty, and when selected_bets is absent or empty; the winner_team check
\* comes first and nothing is computed on either path.
C4_ValidationErrors ==
    BuildMultiCalled =>
        LET no_winner == \/ "winner_team" \notin DOMAIN frame.request
                         \/ frame.request.winner_team = <<>>
            no_bets   == \/ "selected_bets" \notin DOMAIN frame.request
                         \/ frame.request.selected_bets = <<>>
            nothing_computed ==
                /\ response.status = 400
                /\ response.raised = "HTTPException"
                /\ response.body = <<>>
                /\ "combined_percentage" \notin DOMAIN frame
                /\ "total_percentage" \notin DOMAIN frame
        IN  /\ no_winner => nothing_computed /\ response.detail = "Winner team is required"
            /\ (~no_winner /\ no_bets) =>
                    nothing_computed /\ response.detail = "At least one bet must be selected"
            /\ (~no_winner /\ ~no_bets) => response.status = 200

\* A request with neither winner_team nor any bet: the winner check answers.
C4_Witness ==
    /\ BuildMultiCalled
    /\ frame.request = [selected_bets |-> <<>>]
    /\ response.status = 400
    /\ response.detail = "Winner team is required"

-----------------------------------------------------------------------------
(* Properties of the recommendation list *)

Descending(recs) ==
    \A i, j \in Indices(recs) :
        i < j => FGe(recs[i].percentage_value, recs[j].percentage_value)

\* The entries of recs whose percentage_value equals that of x, in order.
Ties(recs, x) ==
    SelectSeq(recs, LAMBDA e : FEq(e.percentage_value, x.percentage_value))

IndexIn(x, list) == CHOOSE i \in Indices(list) : list[i] = x

NoRepeats(list) == \A i, j \in Indices(list) : list[i] = list[j] => i = j

MarketNames(catalog) == [i \in Indices(catalog) |-> catalog[i].name]

\* Where an entry was met: the place of its team in match_teams, batters
\* before bowlers, the row of its player, the place of its market.
Encounter(e, match_teams) ==
    << IndexIn(e.team, match_teams),
       IF e.type = "batting" THEN 1 ELSE 2,
       IndexIn(e.player_name, PlayerNames),
       IF e.type = "batting" THEN IndexIn(e.market, MarketNames(BATTING_MARKETS))
       ELSE IndexIn(e.market, MarketNames(BOWLING_MARKETS)) >>

\* a comes before b, place by place.
RECURSIVE Before(_, _)
Before(a, b) ==
    /\ a /= <<>>
    /\ \/ Head(a) < Head(b)
       \/ Head(a) = Head(b) /\ Before(Tail(a), Tail(b))

\* C5: the returned list is ordered by percentage_value descending, and
\* entries of equal percentage_value appear in encounter order: team iteration
\* order, then batters before bowlers, then market order within a player.
C5_SortedStable ==
    RecommendationsAnswered =>
        LET returned == response.body.recommendations
            sorted   == frame.recommendations
            scanned  == frame.scanned
        IN  /\ Descending(returned)
            /\ Descending(sorted)
            /\ \A i \in Indices(scanned) : Ties(sorted, scanned[i]) = Ties(scanned, scanned[i])
            /\ \A i \in Indices(returned) :
                  LET got == Ties(returned, returned[i])
                  IN  got = SubSeq(Ties(scanned, returned[i]), 1, Len(got))
            /\ NoRepeats(frame.match_teams) =>
                  \A i, j \in Indices(scanned) :
                      i < j => Before(Encounter(scanned[i], frame.match_teams),
                                      Encounter(scanned[j], frame.match_teams))

\* Two returned entries of different teams tie, and a larger entry met after
\* them is returned in front of them.
C5_Witness ==
    /\ RecommendationsAnswered
    /\ NoRepeats(frame.match_teams)
    /\ \E i, j \in Indices(response.body.recommendations) :
        LET a == response.body.recommendations[i]
            b == response.body.recommendations[j]
        IN  /\ i < j
            /\ FEq(a.percentage_value, b.percentage_value)
            /\ a.team /= b.team
    /\ \E i, j \in Indices(frame.scanned) :
        i < j /\ FGt(frame.scanned[j].percentage_value, frame.scanned[i].percentage_value)

\* No row of either table belongs to a team of the list.
NoPlayerMatches(match_teams) ==
    /\ \A i \in Indices(batters_df.rows) : ~InList(batters_df.rows[i]["Team"], match_teams)
    /\ \A i \in Indices(bowlers_df.rows) :
          ~InList(bowlers_df.rows[i]["bowling_team"], match_teams)

\* C6: the returned list has at most 7 entries and is the first min(7, n)
\* entries of the sorted list of all n emitted entries; total_available is n,
\* and is 0 when no player matches.
C6_TopSeven ==
    RecommendationsAnswered =>
        LET returned == response.body.recommendations
            sorted   == frame.recommendations
            n        == Len(frame.scanned)
        IN  /\ Len(returned) <= 7
            /\ Len(returned) = IF n < 7 THEN n ELSE 7
            /\ Len(sorted) = n
            /\ \A i \in Indices(returned) : returned[i] = sorted[i]
            /\ response.body.total_available = n
            /\ NoPlayerMatches(frame.match_teams) =>
                  returned = <<>> /\ response.body.total_available = 0

\* More than 7 entries were emitted and 7 are returned.
C6_Witness ==
    /\ RecommendationsAnswered
    /\ Len(frame.scanned) > 7
    /\ Len(response.body.recommendations) = 7
    /\ response.body.total_available = Len(frame.scanned)

-----------------------------------------------------------------------------
(* Properties of the team list *)

RecommendationsCalled == frame.handler = "get_recommendations"

\* The request was rejected with 400 before a team list was derived.
RejectedBeforeTeams ==
    /\ response.status = 400
    /\ response.raised = "HTTPException"
    /\ "match_teams" \notin DOMAIN frame

\* The team list was derived and the request was not turned away: it is
\* answered 200 with that list whenever the two handles it reads are loaded.
DerivedAndServed(teams) ==
    /\ "match_teams" \in DOMAIN frame
    /\ frame.match_teams = teams
    /\ response.status /= 400
    /\ (~batters_df.is_none /\ ~bowlers_df.is_none) =>
          response.status = 200 /\ response.body.match_teams = teams

\* C7 as stated: with a recognized winner_team, a match_id that is absent or
\* does not split on "_vs_" into exactly two parts gives the team list
\* [winner_team]; a match_id "<home>_vs_<away>" gives [home, away]; a missing
\* or unrecognized winner_team is rejected with 400 before any list is derived.
C7_SplitOnUnderscoreVs ==
    RecommendationsCalled =>
        IF WinnerRejected(frame.winner_team) THEN RejectedBeforeTeams
        ELSE LET parts == IF frame.match_id = None THEN <<>>
                          ELSE StrSplit(frame.match_id, UnderscoreVs)
             IN  IF Len(parts) = 2 THEN DerivedAndServed(parts)
                 ELSE DerivedAndServed(<<frame.winner_team>>)

\* The places of match_id where a separator, "_vs_" or " vs ", starts.
SeparatorPlaces(match_id) ==
    {i \in Indices(match_id) :
        i + 3 <= Len(match_id) /\ SubSeq(match_id, i, i + 3) \in Separators}

\* C7 as amended: the separator may be written "_vs_" or " vs ".  A match_id
\* that is absent, or does not hold exactly one separator, gives the team list
\* [winner_team]; one that holds exactly one gives the text in front of it and
\* the text behind it.
C7_TeamList ==
    RecommendationsCalled =>
        IF WinnerRejected(frame.winner_team) THEN RejectedBeforeTeams
        ELSE LET places == IF frame.match_id = None THEN {}
                           ELSE SeparatorPlaces(frame.match_id)
             IN  IF Cardinality(places) = 1
                 THEN LET at == CHOOSE i \in places : TRUE
                      IN  DerivedAndServed(<<SubSeq(frame.match_id, 1, at - 1),
                                             SubSeq(frame.match_id, at + 4,
                                                    Len(frame.match_id))>>)
                 ELSE DerivedAndServed(<<frame.winner_team>>)

\* A match_id written with " vs " is answered with both of its teams.
C7_Witness ==
    /\ RecommendationsAnswered
    /\ frame.match_id = SixersVsScorchers
    /\ response.body.match_teams = <<SydneySixers, PerthScorchers>>

\* C9: every entry emitted, before and after truncation, belongs to a batter
\* or bowler row whose team is a member of the team list; a team of the list
\* without players contributes nothing and causes no error, and a list that
\* matches no player yields an empty result with total_available = 0.
FromRowOfTeams(e, match_teams) ==
    /\ InList(e.team, match_teams)
    /\ IF e.type = "batting"
       THEN \E i \in Indices(batters_df.rows) :
               /\ batters_df.rows[i]["BatsmanName"] = e.player_name
               /\ batters_df.rows[i]["Team"] = e.team
       ELSE \E i \in Indices(bowlers_df.rows) :
               /\ bowlers_df.rows[i]["BowlerName"] = e.player_name
               /\ bowlers_df.rows[i]["bowling_team"] = e.team

C9_OnlyTeamsOfTheMatch ==
    /\ RecommendationsAnswered =>
        /\ \A i \in Indices(frame.scanned) :
              FromRowOfTeams(frame.scanned[i], frame.match_teams)
        /\ \A i \in Indices(response.body.recommendations) :
              FromRowOfTeams(response.body.recommendations[i], frame.match_teams)
        /\ NoPlayerMatches(frame.match_teams) =>
              /\ response.body.recommendations = <<>>
              /\ response.body.total_available = 0
    /\ (/\ RecommendationsCalled
        /\ ~WinnerRejected(frame.winner_team)
        /\ ~batters_df.is_none /\ ~bowlers_df.is_none) => response.status = 200

\* The tables hold a batter of a team outside the list, and the teams of the
\* list have entries.
C9_Witness ==
    /\ RecommendationsAnswered
    /\ frame.scanned /= <<>>
    /\ \E i \in Indices(batters_df.rows) :
          ~InList(batters_df.rows[i]["Team"], frame.match_teams)

\* A present percentage that is not zero.
PresentNonZero(pct) == PdNotna(pct) /\ ~IsZero(PercentageValue(pct))

\* The entries emitted for a player, a role and a market.
EntriesOf(scanned, name, team, market, type) ==
    SelectSeq(scanned, LAMBDA e : /\ e.player_name = name /\ e.team = team
                                  /\ e.market = market /\ e.type = type)

\* C10: the scan covers every market of the catalog that applies to a
\* player's role: for every batter of a selected team and each of the 4
\* batting markets, and every bowler of a selected team and each of the 3
\* bowling markets, a present non-zero percentage produces exactly one entry
\* of the list counted by total_available.  (Stated for team lists that name no
\* team twice.)
C10_EveryCatalogMarket ==
    (RecommendationsAnswered /\ NoRepeats(frame.match_teams)) =>
        /\ Len(BATTING_MARKETS) = 4
        /\ Len(BOWLING_MARKETS) = 3
        /\ response.body.total_available = Len(frame.scanned)
        /\ \A i \in Indices(batters_df.rows), k \in Indices(BATTING_MARKETS) :
              LET row == batters_df.rows[i]
              IN  (/\ InList(row["Team"], frame.match_teams)
                   /\ PresentNonZero(row[BATTING_MARKETS[k].csv_column]))
                  => Len(EntriesOf(frame.scanned, row["BatsmanName"], row["Team"],
                                   BATTING_MARKETS[k].name, "batting")) = 1
        /\ \A i \in Indices(bowlers_df.rows), k \in Indices(BOWLING_MARKETS) :
              LET row == bowlers_df.rows[i]
              IN  (/\ InList(row["bowling_team"], frame.match_teams)
                   /\ PresentNonZero(row[BOWLING_MARKETS[k].csv_column]))
                  => Len(EntriesOf(frame.scanned, row["BowlerName"], row["bowling_team"],
                                   BOWLING_MARKETS[k].name, "bowling")) = 1

\* C11: in every successful POST /recommendations response the validated
\* winner_team is one of the teams of match_teams, so no recommendations are
\* computed for a match without the selected winner, and the team of every
\* returned entry is a recognized BBL team.
C11_WinnerInMatch ==
    RecommendationsAnswered =>
        /\ InList(frame.winner_team, BBL_TEAMS)
        /\ InList(frame.winner_team, frame.match_teams)
        /\ \A i \in Indices(response.body.recommendations) :
              InList(response.body.recommendations[i].team, BBL_TEAMS)

=============================================================================
